---- MODULE Spec2Model ----
(***************************************************************************)
(* A model of go-caskdb: the record codec (header.go and the format part   *)
(* of the store source) and the DiskStore (NewDiskStore, Get, Set, Close)  *)
(* with its package-level keyDir, called by one thread or by two.          *)
(*                                                                         *)
(* Bytes are numbers 0..255, a []byte or a Go string is a sequence of      *)
(* bytes.  A uint32 is kept as two 16-bit halves [hi, lo] so that the full *)
(* 32-bit range and its wrap-around stay representable.                    *)
(***************************************************************************)
EXTENDS Integers, Sequences, FiniteSets, TLC

VARIABLES
  files,     \* path -> [exists, data]: the file system
  stores,    \* instance id -> [state, path, curPos]: the DiskStore objects of the process
  keyDir,    \* key -> keyEntry: the package-level index
  ret,       \* what the last call did and returned
  hist,      \* path -> the (timestamp, key, value, offset) of every completed Set, in order
  torn,      \* path -> a write to this file has failed part-way
  stale,     \* instance id -> a write through this instance has failed
  cin,       \* codec specification: the input under test
  cout,      \* codec specification: the result of the last codec call
  thr        \* thread id -> the call the thread is in, its position and locals

vars == <<files, stores, keyDir, ret, hist, torn, stale, cin, cout, thr>>

storeVars == <<files, stores, keyDir, ret, hist, torn, stale>>
codecVars == <<cin, cout>>

\* ------------------------------------------------------------------------
\* uint32 arithmetic

Half == 256 * 256

\* uint32(n) for a non-negative int n below 2^31
U32(n) == [hi |-> (n \div Half) % Half, lo |-> n % Half]

\* uint32 addition, wrapping at 2^32
U32Add(a, b) ==
  [hi |-> (a.hi + b.hi + ((a.lo + b.lo) \div Half)) % Half,
   lo |-> (a.lo + b.lo) % Half]

\* int(u) <= n, for a small non-negative n
U32Le(u, n) == u.hi = 0 /\ u.lo <= n

\* int(u), used only where u.hi = 0
U32Int(u) == u.hi * Half + u.lo

\* binary.LittleEndian.PutUint32
PutUint32(v) ==
  <<v.lo % 256, v.lo \div 256, v.hi % 256, v.hi \div 256>>

\* the four bytes read most significant first (binary.BigEndian.Uint32)
Uint32BigEndian(b) ==
  [hi |-> b[2] + 256 * b[1], lo |-> b[4] + 256 * b[3]]

\* binary.LittleEndian.Uint32 of the four bytes b[1..4]
Uint32(b) ==
  [hi |-> b[3] + 256 * b[4], lo |-> b[1] + 256 * b[2]]

\* ------------------------------------------------------------------------
\* slices

\* make([]byte, n)
RECURSIVE Zeros(_)
Zeros(n) == IF n = 0 THEN <<>> ELSE Append(Zeros(n - 1), 0)

\* buf[from:to] with 0-based Go bounds, as a fresh sequence
Slice(buf, from, to) == SubSeq(buf, from + 1, to)

\* copy of bytes into buf starting at 0-based offset off (off + Len(bytes) <= Len(buf))
Poke(buf, off, bytes) ==
  SubSeq(buf, 1, off) \o bytes \o SubSeq(buf, off + Len(bytes) + 1, Len(buf))

\* ------------------------------------------------------------------------
\* header.go

headerSize == 12

\* header.WriteBytes: the header written over the first 12 bytes of buf
WriteBytes(h, buf) ==
  Poke(Poke(Poke(buf, 0, PutUint32(h.timestamp)), 4, PutUint32(h.keySize)),
       8, PutUint32(h.valueSize))

\* header.KeyLen: 12 + int(keySize) + int(valueSize)
KeyLen(h) == 12 + U32Int(h.keySize) + U32Int(h.valueSize)

NoHeader == [timestamp |-> U32(0), keySize |-> U32(0), valueSize |-> U32(0)]

\* headerFromBytes: (header, err)
headerFromBytes(buf) ==
  IF Len(buf) # 12
  THEN [err |-> TRUE, h |-> NoHeader]
  ELSE [err |-> FALSE,
        h |-> [timestamp |-> Uint32(Slice(buf, 0, 4)),
               keySize   |-> Uint32(Slice(buf, 4, 8)),
               valueSize |-> Uint32(Slice(buf, 8, 12))]]

\* encodeHeader: a fresh 12-byte buffer holding the header
encodeHeader(timestamp, keySize, valueSize) ==
  WriteBytes([timestamp |-> timestamp, keySize |-> keySize,
              valueSize |-> valueSize],
             Zeros(12))

\* decodeHeader after headerFromBytes: panic(err), or the three fields
DecodeHeaderOf(hr) == [panic |-> hr.err, h |-> hr.h]

\* decodeHeader(header)
decodeHeader(buf) == DecodeHeaderOf(headerFromBytes(buf))

\* ------------------------------------------------------------------------
\* unicode/utf8, as used by encodeKV

\* a continuation byte 10xxxxxx
Cont(b) == b >= 128 /\ b <= 191

\* the rune U+FFFD and its width-1 decoding of an invalid byte
RuneErr == [r |-> 65533, w |-> 1]

\* the accepted range of the second byte after first byte b0
SecondLo(b0) == IF b0 = 224 THEN 160 ELSE IF b0 = 240 THEN 144 ELSE 128
SecondHi(b0) == IF b0 = 237 THEN 159 ELSE IF b0 = 244 THEN 143 ELSE 191

\* one step of `for i, val := range s`: the rune at 0-based offset i and its width
DecodeRune(s, i) ==
  LET n  == Len(s) - i
      b0 == s[i + 1]
  IN IF b0 < 128 THEN [r |-> b0, w |-> 1]
     ELSE IF b0 >= 194 /\ b0 <= 223
     THEN IF n >= 2 /\ Cont(s[i + 2])
          THEN [r |-> (b0 % 32) * 64 + (s[i + 2] % 64), w |-> 2]
          ELSE RuneErr
     ELSE IF b0 >= 224 /\ b0 <= 239
     THEN IF n >= 3 /\ s[i + 2] >= SecondLo(b0) /\ s[i + 2] <= SecondHi(b0)
             /\ Cont(s[i + 3])
          THEN [r |-> (b0 % 16) * 4096 + (s[i + 2] % 64) * 64 + (s[i + 3] % 64),
                w |-> 3]
          ELSE RuneErr
     ELSE IF b0 >= 240 /\ b0 <= 244
     THEN IF n >= 4 /\ s[i + 2] >= SecondLo(b0) /\ s[i + 2] <= SecondHi(b0)
             /\ Cont(s[i + 3]) /\ Cont(s[i + 4])
          THEN [r |-> (b0 % 8) * 262144 + (s[i + 2] % 64) * 4096
                      + (s[i + 3] % 64) * 64 + (s[i + 4] % 64),
                w |-> 4]
          ELSE RuneErr
     ELSE RuneErr

\* EncodeRune keeping only the low byte of the rune (buf[i] = byte(val))
EncodeRuneLowByte(r) == <<r % 256>>

\* utf8.EncodeRune: the bytes it writes for rune r
EncodeRune(r) ==
  IF r <= 127 THEN <<r>>
  ELSE IF r <= 2047 THEN <<192 + (r \div 64), 128 + (r % 64)>>
  ELSE IF r > 1114111 \/ (r >= 55296 /\ r <= 57343) THEN <<239, 191, 189>>
  ELSE IF r <= 65535
  THEN <<224 + (r \div 4096), 128 + ((r \div 64) % 64), 128 + (r % 64)>>
  ELSE <<240 + (r \div 262144), 128 + ((r \div 4096) % 64),
         128 + ((r \div 64) % 64), 128 + (r % 64)>>

\* s is valid UTF-8: no step of the range loop yields an error rune for an
\* invalid byte (U+FFFD itself, EF BF BD, decodes with width 3)
RECURSIVE ValidFrom(_, _)
ValidFrom(s, i) ==
  IF i >= Len(s) THEN TRUE
  ELSE LET d == DecodeRune(s, i)
       IN IF d.r = 65533 /\ d.w = 1 THEN FALSE ELSE ValidFrom(s, i + d.w)

ValidUTF8(s) == ValidFrom(s, 0)

\* ------------------------------------------------------------------------
\* encodeKV / decodeKV

\* one iteration of `for i, val := range s { utf8.EncodeRune(buf[base+i:], val) }`:
\* the bytes e of the rune at offset i are written at base+i.  b is [panic, buf];
\* EncodeRune panics when e does not fit the rest of the buffer.
PutRune(b, at, e) ==
  IF at + Len(e) > Len(b.buf)
  THEN [panic |-> TRUE, buf |-> b.buf]
  ELSE [panic |-> FALSE, buf |-> Poke(b.buf, at, e)]

\* the loop from offset i on
RECURSIVE WriteRunes(_, _, _, _)
RuneStep(b, base, s, i, d) ==
  WriteRunes(PutRune(b, base + i, EncodeRune(d.r)), base, s, i + d.w)

WriteRunes(b, base, s, i) ==
  IF b.panic \/ i >= Len(s) THEN b
  ELSE RuneStep(b, base, s, i, DecodeRune(s, i))

\* encodeKV's return values for the filled buffer b
Encoded(b) == [panic |-> b.panic, n |-> Len(b.buf), data |-> b.buf]

\* encodeKV after the header h is built: allocate, write header, key, value
EncodeWith(h, key, value) ==
  Encoded(WriteRunes(
            WriteRunes([panic |-> FALSE, buf |-> WriteBytes(h, Zeros(KeyLen(h)))],
                       12, key, 0),
            12 + U32Int(h.keySize), value, 0))

\* encodeKV(timestamp, key, value): (len(buf), buf), or a panic
encodeKV(timestamp, key, value) ==
  EncodeWith([timestamp |-> timestamp,
              keySize   |-> U32(Len(key)),
              valueSize |-> U32(Len(value))],
             key, value)

NoKV == [panic |-> TRUE, timestamp |-> U32(0), key |-> <<>>, value |-> <<>>]

\* decodeKV's return statement: header is what headerFromBytes(data[:12]) gave,
\* ke is 12+header.keySize (uint32 arithmetic).  data[12:ke] and data[ke:] panic
\* unless 12 <= ke <= len(data).
DecodeWith(data, header, ke) ==
  IF ~U32Le(ke, Len(data)) \/ U32Int(ke) < 12 THEN NoKV
  ELSE [panic     |-> FALSE,
        timestamp |-> header.timestamp,
        key       |-> Slice(data, 12, U32Int(ke)),
        value     |-> Slice(data, U32Int(ke), Len(data))]

\* decodeKV after headerFromBytes: panic(err), or the return statement
DecodeHeader(data, hr) ==
  IF hr.err THEN NoKV
  ELSE DecodeWith(data, hr.h, U32Add(U32(12), hr.h.keySize))

\* decodeKV(data).  With fewer than 12 bytes data[:12] panics, or, when the
\* capacity of data reaches 12, data[12+keySize:] does.
decodeKV(data) ==
  IF Len(data) < 12 THEN NoKV
  ELSE DecodeHeader(data, headerFromBytes(Slice(data, 0, 12)))

\* ------------------------------------------------------------------------
\* bounds and inputs of the store specification

MaxStores == 2        \* DiskStore objects a process creates
MaxRecords == 2       \* completed Sets, all files together
MaxTorn == 1          \* writes that fail part-way, all files together

Paths == {"a.db", "b.db"}
StoreIds == 1..MaxStores

\* "a", "é"
Keys == {<<97>>, <<195, 169>>}
\* "x", "€"
Values == {<<120>>, <<226, 130, 172>>}
\* uint32(time.Now().Unix()): 0xFFFF0304
Timestamps == {[hi |-> 65535, lo |-> 772]}
\* bytes a failing write may have put in the file before the error
Shortfalls == {0, 7, 13}

\* the number of elements of all sequences of f together
RECURSIVE Total(_, _)
Total(f, D) ==
  IF D = {} THEN 0
  ELSE LET d == CHOOSE x \in D : TRUE IN Len(f[d]) + Total(f, D \ {d})

RECURSIVE Sum(_, _)
Sum(f, D) ==
  IF D = {} THEN 0
  ELSE LET d == CHOOSE x \in D : TRUE IN f[d] + Sum(f, D \ {d})

\* ------------------------------------------------------------------------
\* the store

NoEntry == [found |-> FALSE, fileId |-> 0, valueSize |-> 0, valuePos |-> 0,
            timestamp |-> U32(0)]

\* base is the length the file had when the instance was created (not a field
\* of DiskStore: it tells the instance's own records from earlier ones)
NoStore == [state |-> "unopened", path |-> "", curPos |-> 0, base |-> 0]

\* written and dataLen are Set's locals of those names: the count d.f.Write
\* returned and the length of the encoded record
NoRet == [op |-> "", store |-> 0, path |-> "", key |-> <<>>, out |-> <<>>,
          panic |-> FALSE, written |-> 0, dataLen |-> 0]

\* os.File.ReadAt(buf, off) with len(buf) = size on a file holding data:
\* the bytes read, err set on a closed file or when fewer than size bytes remain
ReadAt(st, data, size, off) ==
  IF st.state # "open" THEN [err |-> TRUE, buf |-> <<>>]
  ELSE IF size = 0 THEN [err |-> FALSE, buf |-> <<>>]
  ELSE IF off + size > Len(data) THEN [err |-> TRUE, buf |-> <<>>]
  ELSE [err |-> FALSE, buf |-> Slice(data, off, off + size)]

\* the smallest instance id not yet used by this process
FreshStore == CHOOSE s \in StoreIds :
                /\ stores[s].state = "unopened"
                /\ \A t \in StoreIds : t < s => stores[t].state # "unopened"

\* no open DiskStore holds path p (the caller's obligation of NewDiskStore)
NotOpen(p) == \A s \in StoreIds : ~(stores[s].state = "open" /\ stores[s].path = p)

\* a NewDiskStore that leaves curPos at its zero value
StatSizeSkipped(p) == 0

\* os.Stat + the size taken from it (0 when the file does not exist)
StatSize(p) == IF files[p].exists THEN Len(files[p].data) ELSE 0

\* NewDiskStore with os.O_TRUNC among the flags of os.OpenFile
NewDiskStoreTrunc(p) ==
  /\ \E s \in StoreIds : stores[s].state = "unopened"
  /\ NotOpen(p)
  /\ LET s == FreshStore IN
       /\ stores' = [stores EXCEPT ![s] =
                       [state |-> "open", path |-> p, curPos |-> StatSize(p),
                        base |-> 0]]
       /\ files' = [files EXCEPT ![p] = [exists |-> TRUE, data |-> <<>>]]
       /\ ret' = [NoRet EXCEPT !.op = "NewDiskStore", !.store = s, !.path = p]
  /\ UNCHANGED <<keyDir, hist, torn, stale, codecVars, thr>>

\* NewDiskStore(fileName), the open succeeding
NewDiskStore(p) ==
  /\ \E s \in StoreIds : stores[s].state = "unopened"
  /\ NotOpen(p)
  /\ LET s == FreshStore IN
       /\ stores' = [stores EXCEPT ![s] =
                       [state |-> "open", path |-> p, curPos |-> StatSize(p),
                        base |-> Len(files[p].data)]]
       /\ files' = [files EXCEPT ![p].exists = TRUE]
       /\ ret' = [NoRet EXCEPT !.op = "NewDiskStore", !.store = s, !.path = p]
  /\ UNCHANGED <<keyDir, hist, torn, stale, codecVars, thr>>

\* NewDiskStore(fileName), os.OpenFile failing: (nil, err)
NewDiskStoreErr(p) ==
  /\ \E s \in StoreIds : stores[s].state = "unopened"
  /\ NotOpen(p)
  /\ ret' = [NoRet EXCEPT !.op = "NewDiskStore", !.path = p, !.panic = TRUE]
  /\ UNCHANGED <<files, stores, keyDir, hist, torn, stale, codecVars, thr>>

\* Get after the ReadAt: panic(err), or the value decodeKV returns
GetDecoded(d) ==
  IF d.panic THEN [panic |-> TRUE, out |-> <<>>]
  ELSE [panic |-> FALSE, out |-> d.value]

GetRead(rd) ==
  IF rd.err THEN [panic |-> TRUE, out |-> <<>>]
  ELSE GetDecoded(decodeKV(rd.buf))

\* what Get(key) on store st returns, keyInfo being keyDir[key]: [panic, out]
GetEntry(st, keyInfo) ==
  IF ~keyInfo.found THEN [panic |-> FALSE, out |-> <<>>]
  ELSE GetRead(ReadAt(st, files[st.path].data, keyInfo.valueSize, keyInfo.valuePos))

GetResult(st, key) == GetEntry(st, keyDir[key])

GetRet(s, key, g) ==
  [NoRet EXCEPT !.op = "Get", !.store = s, !.path = stores[s].path,
                !.key = key, !.out = g.out, !.panic = g.panic]

\* DiskStore.Get
Get(s, key) ==
  /\ stores[s].state # "unopened"
  /\ ret' = GetRet(s, key, GetResult(stores[s], key))
  /\ UNCHANGED <<files, stores, keyDir, hist, torn, stale, codecVars, thr>>

\* a keyEntry that does not record where the record was written
SetEntryAtZero(timestamp, dataLen, curPos) ==
  [found |-> TRUE, fileId |-> 0, valueSize |-> dataLen, valuePos |-> 0,
   timestamp |-> timestamp]

\* the keyEntry Set stores for a record of dataLen bytes written at curPos
SetEntry(timestamp, dataLen, curPos) ==
  [found |-> TRUE, fileId |-> 0, valueSize |-> dataLen, valuePos |-> curPos,
   timestamp |-> timestamp]

\* a write that lands at offset 0, as through a handle opened without O_APPEND
WriteAtStart(data, bytes) ==
  bytes \o SubSeq(data, Len(bytes) + 1, Len(data))

\* d.f.Write(bytes) on a file holding data, opened with O_APPEND
FileWrite(data, bytes) == data \o bytes

\* a Set that leaves d.curPos where it was
SetWrittenInPlace(s, p, key, value, timestamp, enc) ==
  /\ ~enc.panic
  /\ files' = [files EXCEPT ![p].data = FileWrite(@, enc.data)]
  /\ keyDir' = [keyDir EXCEPT ![key] = SetEntry(timestamp, enc.n, stores[s].curPos)]
  /\ stores' = stores
  /\ hist' = [hist EXCEPT ![p] =
                Append(@, [timestamp |-> timestamp, key |-> key,
                           value |-> value, pos |-> Len(files[p].data)])]
  /\ ret' = [NoRet EXCEPT !.op = "Set", !.store = s, !.path = p, !.key = key,
                          !.written = enc.n, !.dataLen = enc.n]

\* a Set that replaces the whole index by the entry of key
SetWrittenAlone(s, p, key, value, timestamp, enc) ==
  /\ ~enc.panic
  /\ files' = [files EXCEPT ![p].data = FileWrite(@, enc.data)]
  /\ keyDir' = [k \in Keys |->
                  IF k = key THEN SetEntry(timestamp, enc.n, stores[s].curPos)
                  ELSE NoEntry]
  /\ stores' = [stores EXCEPT ![s].curPos = @ + enc.n]
  /\ hist' = [hist EXCEPT ![p] =
                Append(@, [timestamp |-> timestamp, key |-> key,
                           value |-> value, pos |-> Len(files[p].data)])]
  /\ ret' = [NoRet EXCEPT !.op = "Set", !.store = s, !.path = p, !.key = key,
                          !.written = enc.n, !.dataLen = enc.n]

\* Set from the write on, the write completing: enc is what encodeKV returned
SetWritten(s, p, key, value, timestamp, enc) ==
  /\ ~enc.panic
  /\ files' = [files EXCEPT ![p].data = FileWrite(@, enc.data)]
  /\ keyDir' = [keyDir EXCEPT ![key] = SetEntry(timestamp, enc.n, stores[s].curPos)]
  /\ stores' = [stores EXCEPT ![s].curPos = @ + enc.n]
  /\ hist' = [hist EXCEPT ![p] =
                Append(@, [timestamp |-> timestamp, key |-> key,
                           value |-> value, pos |-> Len(files[p].data)])]
  /\ ret' = [NoRet EXCEPT !.op = "Set", !.store = s, !.path = p, !.key = key,
                          !.written = enc.n, !.dataLen = enc.n]

\* DiskStore.Set, the write completing
Set(s, key, value, timestamp) ==
  /\ stores[s].state = "open"
  /\ Total(hist, Paths) < MaxRecords
  /\ SetWritten(s, stores[s].path, key, value, timestamp,
                encodeKV(timestamp, key, value))
  /\ UNCHANGED <<torn, stale, codecVars, thr>>

\* what the caller of a Set sees whose write stopped after n bytes
FailedRet(s, p, key, n, enc) ==
  [NoRet EXCEPT !.op = "Set", !.store = s, !.path = p, !.key = key,
                !.panic = TRUE, !.written = n, !.dataLen = enc.n]

\* a Set that ignores the outcome of the write and goes on to lines 127-132
SetFailedUnnoticed(s, p, key, n, enc) ==
  /\ ~enc.panic
  /\ n < enc.n
  /\ files' = [files EXCEPT ![p].data = FileWrite(@, Slice(enc.data, 0, n))]
  /\ torn' = [torn EXCEPT ![p] = IF n > 0 THEN @ + 1 ELSE @]
  /\ stale' = [stale EXCEPT ![s] = @ \/ n > 0]
  /\ keyDir' = [keyDir EXCEPT ![key] = SetEntry(U32(0), enc.n, stores[s].curPos)]
  /\ stores' = [stores EXCEPT ![s].curPos = @ + enc.n]
  /\ ret' = [FailedRet(s, p, key, n, enc) EXCEPT !.panic = FALSE]

\* Set from the write on, the write failing after n bytes: panic(err) before
\* keyDir and curPos are touched
SetFailed(s, p, key, n, enc) ==
  /\ ~enc.panic
  /\ n < enc.n
  /\ files' = [files EXCEPT ![p].data = FileWrite(@, Slice(enc.data, 0, n))]
  /\ torn' = [torn EXCEPT ![p] = IF n > 0 THEN @ + 1 ELSE @]
  /\ stale' = [stale EXCEPT ![s] = @ \/ n > 0]
  /\ ret' = FailedRet(s, p, key, n, enc)
  /\ UNCHANGED <<stores, keyDir>>

\* DiskStore.Set, the write failing after n bytes (n = 0 on a closed file)
SetErr(s, key, value, timestamp, n) ==
  /\ stores[s].state # "unopened"
  /\ stores[s].state = "closed" => n = 0
  /\ n > 0 => Sum(torn, Paths) < MaxTorn
  /\ SetFailed(s, stores[s].path, key, n, encodeKV(timestamp, key, value))
  /\ UNCHANGED <<hist, codecVars, thr>>

\* DiskStore.Set, the write failing after n > 0 bytes and nothing recovering
\* from the panic: the process ends with the bytes in the file, the next one
\* starts as after Restart
SetFatal(s, key, value, timestamp, n) ==
  /\ stores[s].state = "open"
  /\ n > 0
  /\ Sum(torn, Paths) < MaxTorn
  /\ LET p == stores[s].path
         enc == encodeKV(timestamp, key, value)
     IN  /\ ~enc.panic
         /\ n < enc.n
         /\ files' = [files EXCEPT ![p].data = FileWrite(@, Slice(enc.data, 0, n))]
         /\ torn' = [torn EXCEPT ![p] = @ + 1]
         /\ ret' = [FailedRet(s, p, key, n, enc) EXCEPT !.op = "SetFatal"]
  /\ stores' = [t \in StoreIds |-> NoStore]
  /\ keyDir' = [k \in Keys |-> NoEntry]
  /\ stale' = [t \in StoreIds |-> FALSE]
  /\ UNCHANGED <<hist, codecVars, thr>>

\* DiskStore.Close: true, or panic(err) when the file is already closed
Close(s) ==
  /\ stores[s].state # "unopened"
  /\ stores' = [stores EXCEPT ![s].state = "closed"]
  /\ ret' = [NoRet EXCEPT !.op = "Close", !.store = s, !.path = stores[s].path,
                          !.panic = (stores[s].state = "closed")]
  /\ UNCHANGED <<files, keyDir, hist, torn, stale, codecVars, thr>>

\* the process ends and a new one starts: the files stay, the package-level
\* keyDir is initialised anew and no DiskStore object exists
Restart ==
  /\ \E s \in StoreIds : stores[s].state # "unopened"
  /\ stores' = [s \in StoreIds |-> NoStore]
  /\ keyDir' = [k \in Keys |-> NoEntry]
  /\ stale' = [s \in StoreIds |-> FALSE]
  /\ ret' = [NoRet EXCEPT !.op = "Restart"]
  /\ UNCHANGED <<files, hist, torn, codecVars, thr>>

\* keyLen and valueLen stand for a key and a value too long to write out,
\* h is the header handed to encodeHeader
NoCodec == [timestamp |-> U32(0), key |-> <<>>, value |-> <<>>, data |-> <<>>,
            mangled |-> FALSE, keyLen |-> U32(0), valueLen |-> U32(0),
            h |-> NoHeader]

\* h is the header a call wrote into its buffer or read from it, size the
\* length of the buffer a call allocated, err the error a call returned
NoOut == [op |-> "", panic |-> FALSE, n |-> 0, timestamp |-> U32(0),
          key |-> <<>>, value |-> <<>>, h |-> NoHeader, size |-> U32(0),
          err |-> FALSE]

\* the threads that call into one DiskStore
Threads == {1, 2}

\* a thread outside any call.  key, value, timestamp are the arguments of its
\* call and n, data what encodeKV returned (dataLen, data); pos is the
\* d.curPos read for the keyEntry, cur the d.curPos read by d.curPos +=
\* dataLen, entry the keyInfo of Get; out and panic are the outcome.  at (the
\* offset its write landed at) and sets (the Sets it has called) are not
\* program state.
NoThread == [pc |-> "idle", op |-> "", key |-> <<>>, value |-> <<>>,
             timestamp |-> U32(0), n |-> 0, data |-> <<>>, pos |-> 0, cur |-> 0,
             entry |-> NoEntry, out |-> <<>>, panic |-> FALSE, at |-> 0,
             sets |-> 0]

\* no file exists, no DiskStore has been created, keyDir is the empty map, no
\* thread is in a call
StoreIdle ==
  /\ thr = [t \in Threads |-> NoThread]
  /\ files = [p \in Paths |-> [exists |-> FALSE, data |-> <<>>]]
  /\ stores = [s \in StoreIds |-> NoStore]
  /\ keyDir = [k \in Keys |-> NoEntry]
  /\ ret = NoRet
  /\ hist = [p \in Paths |-> <<>>]
  /\ torn = [p \in Paths |-> 0]
  /\ stale = [s \in StoreIds |-> FALSE]

Init ==
  /\ StoreIdle
  /\ cin = NoCodec
  /\ cout = NoOut

\* the steps of a process that uses the files P and whose failing writes leave
\* F bytes behind
StoreNext(P, F) ==
  \/ \E p \in P : NewDiskStore(p)
  \/ \E p \in P : NewDiskStoreErr(p)
  \/ \E s \in StoreIds, k \in Keys : Get(s, k)
  \/ \E s \in StoreIds, k \in Keys, v \in Values, t \in Timestamps : Set(s, k, v, t)
  \/ \E s \in StoreIds, k \in Keys, v \in Values, t \in Timestamps, n \in F :
       SetErr(s, k, v, t, n)
  \/ \E s \in StoreIds : Close(s)
  \/ Restart

\* two files, writes fail without leaving bytes behind
Next == StoreNext(Paths, {0})

Spec == Init /\ [][Next]_vars

\* one file, writes may fail part-way
NextTorn == StoreNext({"a.db"}, Shortfalls)

SpecTorn == Init /\ [][NextTorn]_vars

\* one file, writes fail without leaving bytes behind
NextOne == StoreNext({"a.db"}, {0})

SpecOne == Init /\ [][NextOne]_vars

\* one file; a write that fails part-way ends the process, as a panic does
\* that nothing recovers from
NextFatal ==
  \/ StoreNext({"a.db"}, {0})
  \/ \E s \in StoreIds, k \in Keys, v \in Values, t \in Timestamps,
        n \in Shortfalls : SetFatal(s, k, v, t, n)

SpecFatal == Init /\ [][NextFatal]_vars

\* one DiskStore kept open on one file by a process that recovers from the
\* panics of Set; writes may fail part-way
NextLive ==
  \/ NewDiskStore("a.db")
  \/ \E s \in StoreIds, k \in Keys : Get(s, k)
  \/ \E s \in StoreIds, k \in Keys, v \in Values, t \in Timestamps : Set(s, k, v, t)
  \/ \E s \in StoreIds, k \in Keys, v \in Values, t \in Timestamps, n \in Shortfalls :
       SetErr(s, k, v, t, n)

SpecLive == Init /\ [][NextLive]_vars

\* ------------------------------------------------------------------------
\* two threads calling Get and Set on one DiskStore.  DiskStore has no lock,
\* so the calls interleave at every access to the file, keyDir and d.curPos.

\* the DiskStore the threads share
Shared == CHOOSE s \in StoreIds : stores[s].state = "open"

Between(t) == thr[t].pc \in {"idle", "done"}

\* Sets that have been called and have not written yet
Unwritten == Cardinality({t \in Threads : thr[t].pc = "write"})

\* Set up to the write (lines 111-117): the record is encoded
CallSetWith(t, key, value, timestamp, enc) ==
  /\ ~enc.panic
  /\ thr' = [thr EXCEPT ![t] =
               [NoThread EXCEPT !.pc = "write", !.op = "Set", !.key = key,
                                !.value = value, !.timestamp = timestamp,
                                !.n = enc.n, !.data = enc.data,
                                !.sets = thr[t].sets + 1]]

CallSet(t, key, value, timestamp) ==
  /\ Between(t)
  /\ \E s \in StoreIds : stores[s].state = "open"
  /\ Total(hist, Paths) + Unwritten < MaxRecords
  /\ CallSetWith(t, key, value, timestamp, encodeKV(timestamp, key, value))
  /\ UNCHANGED <<storeVars, codecVars>>

\* d.f.Write(data) (line 119), completing: one append to the O_APPEND file
WriteStep(t) ==
  /\ thr[t].pc = "write"
  /\ LET p == stores[Shared].path IN
       /\ files' = [files EXCEPT ![p].data = FileWrite(@, thr[t].data)]
       /\ hist' = [hist EXCEPT ![p] =
                     Append(@, [timestamp |-> thr[t].timestamp, key |-> thr[t].key,
                                value |-> thr[t].value, pos |-> Len(files[p].data)])]
       /\ thr' = [thr EXCEPT ![t].pc = "slot", ![t].data = <<>>,
                             ![t].at = Len(files[p].data)]
  /\ UNCHANGED <<stores, keyDir, ret, torn, stale, codecVars>>

\* keyDir[key] = keyEntry{...} (lines 127-131), first half: the keyEntry is
\* evaluated, reading d.curPos, and the map assignment finds the slot of key
\* or inserts a zeroed one
SlotStep(t) ==
  /\ thr[t].pc = "slot"
  /\ keyDir' = [keyDir EXCEPT ![thr[t].key] =
                  IF @.found THEN @ ELSE [NoEntry EXCEPT !.found = TRUE]]
  /\ thr' = [thr EXCEPT ![t].pc = "store", ![t].pos = stores[Shared].curPos]
  /\ UNCHANGED <<files, stores, ret, hist, torn, stale, codecVars>>

\* second half: the fields of the keyEntry are stored into the slot
StoreStep(t) ==
  /\ thr[t].pc = "store"
  /\ keyDir' = [keyDir EXCEPT ![thr[t].key] =
                  SetEntry(thr[t].timestamp, thr[t].n, thr[t].pos)]
  /\ thr' = [thr EXCEPT ![t].pc = "load", ![t].pos = 0]
  /\ UNCHANGED <<files, stores, ret, hist, torn, stale, codecVars>>

\* d.curPos += int64(dataLen) (line 132): the load
LoadStep(t) ==
  /\ thr[t].pc = "load"
  /\ thr' = [thr EXCEPT ![t].pc = "advance", ![t].cur = stores[Shared].curPos]
  /\ UNCHANGED <<storeVars, codecVars>>

\* d.curPos += int64(dataLen): the store; Set returns
AdvanceStep(t) ==
  /\ thr[t].pc = "advance"
  /\ stores' = [stores EXCEPT ![Shared].curPos = thr[t].cur + thr[t].n]
  /\ thr' = [thr EXCEPT ![t].pc = "done", ![t].cur = 0]
  /\ UNCHANGED <<files, keyDir, ret, hist, torn, stale, codecVars>>

\* the keyEntry values a racing read of the slot of key can yield while
\* thread u stores its fields: each field is the old or the new one
TornEntries(key, u) ==
  {[found |-> TRUE, fileId |-> 0, valueSize |-> vs, valuePos |-> vp,
    timestamp |-> ts] :
     vs \in {keyDir[key].valueSize, thr[u].n},
     vp \in {keyDir[key].valuePos, thr[u].pos},
     ts \in {keyDir[key].timestamp, thr[u].timestamp}}

\* what keyDir[key] can yield to thread t (line 95): the entry, or, in a data
\* race with another thread's store into that slot, a mix of old and new
Seen(t, key) ==
  LET storing == {u \in Threads \ {t} : thr[u].pc = "store" /\ thr[u].key = key}
  IN  IF storing = {} THEN {keyDir[key]}
      ELSE UNION {TornEntries(key, u) : u \in storing}

\* Get up to the ReadAt (lines 95-98): the lookup; a key not found returns ""
CallGet(t, key) ==
  /\ Between(t)
  /\ \E s \in StoreIds : stores[s].state = "open"
  /\ \E e \in Seen(t, key) :
       thr' = [thr EXCEPT ![t] =
                 [NoThread EXCEPT !.pc = IF e.found THEN "read" ELSE "done",
                                  !.op = "Get", !.key = key, !.entry = e,
                                  !.sets = thr[t].sets]]
  /\ UNCHANGED <<storeVars, codecVars>>

\* what Get returns from the ReadAt on
ReadDone(t, g) ==
  thr' = [thr EXCEPT ![t].pc = "done", ![t].entry = NoEntry,
                     ![t].out = g.out, ![t].panic = g.panic]

\* Get from the ReadAt on (lines 100-107)
ReadStep(t) ==
  /\ thr[t].pc = "read"
  /\ ReadDone(t, GetRead(ReadAt(stores[Shared], files[stores[Shared].path].data,
                                thr[t].entry.valueSize, thr[t].entry.valuePos)))
  /\ UNCHANGED <<storeVars, codecVars>>

\* the process opens one DiskStore before the threads start
NextThreads ==
  \/ (\A t \in Threads : thr[t] = NoThread) /\ NewDiskStore("a.db")
  \/ \E t \in Threads, k \in Keys, v \in Values, ts \in Timestamps : CallSet(t, k, v, ts)
  \/ \E t \in Threads : WriteStep(t)
  \/ \E t \in Threads : SlotStep(t)
  \/ \E t \in Threads : StoreStep(t)
  \/ \E t \in Threads : LoadStep(t)
  \/ \E t \in Threads : AdvanceStep(t)
  \/ \E t \in Threads, k \in Keys : CallGet(t, k)
  \/ \E t \in Threads : ReadStep(t)

SpecThreads == Init /\ [][NextThreads]_vars

\* ------------------------------------------------------------------------
\* the codec on its own: one (timestamp, key, value) is encoded, the buffer is
\* possibly cut short or extended, and decoded

\* 0, 0x01020304, 2^32 - 1
CodecTimestamps == {U32(0), [hi |-> 258, lo |-> 772], [hi |-> 65535, lo |-> 65535]}

\* "", "a", "é", "a€", U+1F600, U+FFFD, and three strings that are not UTF-8:
\* a lone 0xFF, a lead byte without its continuation, a lone continuation byte
\* after "a"
CodecStrings ==
  {<<>>, <<97>>, <<195, 169>>, <<97, 226, 130, 172>>, <<240, 159, 152, 128>>,
   <<239, 191, 189>>, <<255>>, <<195>>, <<97, 128>>}

\* bytes appended to a buffer that is too long
ExtraBytes == {0, 120}

InitCodec ==
  /\ StoreIdle
  /\ \E t \in CodecTimestamps, k \in CodecStrings, v \in CodecStrings :
       cin = [NoCodec EXCEPT !.timestamp = t, !.key = k, !.value = v]
  /\ cout = NoOut

EncodeOut(enc) ==
  [NoOut EXCEPT !.op = "encodeKV", !.panic = enc.panic, !.n = enc.n]

\* a call of encodeKV on the input
Encode ==
  /\ cout.op = ""
  /\ cout' = EncodeOut(encodeKV(cin.timestamp, cin.key, cin.value))
  /\ cin' = [cin EXCEPT !.data = IF cout'.panic THEN <<>>
                                  ELSE encodeKV(cin.timestamp, cin.key, cin.value).data]
  /\ UNCHANGED <<storeVars, thr>>

\* the caller keeps only the first m bytes of the buffer
CutShort(m) ==
  /\ cout.op \in {"encodeKV", "encodeHeader"}
  /\ ~cout.panic
  /\ m < Len(cin.data)
  /\ cin' = [cin EXCEPT !.data = Slice(@, 0, m), !.mangled = TRUE]
  /\ cout' = [cout EXCEPT !.op = "cut"]
  /\ UNCHANGED <<storeVars, thr>>

\* the caller passes a buffer with one more byte after the record
Extend(x) ==
  /\ cout.op \in {"encodeKV", "encodeHeader"}
  /\ ~cout.panic
  /\ cin' = [cin EXCEPT !.data = Append(@, x), !.mangled = TRUE]
  /\ cout' = [cout EXCEPT !.op = "extend"]
  /\ UNCHANGED <<storeVars, thr>>

DecodeOut(d) ==
  [NoOut EXCEPT !.op = "decodeKV", !.panic = d.panic, !.timestamp = d.timestamp,
                !.key = d.key, !.value = d.value]

\* a call of decodeKV on the buffer
Decode ==
  /\ cout.op \in {"encodeKV", "cut", "extend"}
  /\ ~(cout.op = "encodeKV" /\ cout.panic)
  /\ cout' = DecodeOut(decodeKV(cin.data))
  /\ UNCHANGED <<cin, storeVars, thr>>

\* the longest prefix a caller may cut the buffer to
MaxCut == 20

NextCodec ==
  \/ Encode
  \/ \E m \in 0..MaxCut : CutShort(m)
  \/ \E x \in ExtraBytes : Extend(x)
  \/ Decode

SpecCodec == InitCodec /\ [][NextCodec]_vars

\* ------------------------------------------------------------------------
\* the header functions on their own: a header is written to a buffer, the
\* buffer is possibly cut short or extended, and read back

\* 0, 1, 0x01020304, 2^31, 2^32 - 1
HeaderFields ==
  {U32(0), U32(1), [hi |-> 258, lo |-> 772], [hi |-> Half \div 2, lo |-> 0],
   [hi |-> Half - 1, lo |-> Half - 1]}

InitHeader ==
  /\ StoreIdle
  /\ \E t \in HeaderFields, k \in HeaderFields, v \in HeaderFields :
       cin = [NoCodec EXCEPT !.h = [timestamp |-> t, keySize |-> k, valueSize |-> v]]
  /\ cout = NoOut

\* a call of encodeHeader on the three fields
EncodeHeader ==
  /\ cout.op = ""
  /\ cin' = [cin EXCEPT !.data = encodeHeader(cin.h.timestamp, cin.h.keySize,
                                              cin.h.valueSize)]
  /\ cout' = [NoOut EXCEPT !.op = "encodeHeader"]
  /\ UNCHANGED <<storeVars, thr>>

HeaderWritten == cout.op \in {"encodeHeader", "cut", "extend"}

HeaderRead(hr) ==
  [NoOut EXCEPT !.op = "headerFromBytes", !.err = hr.err, !.h = hr.h]

\* a call of headerFromBytes on the buffer
FromBytes ==
  /\ HeaderWritten
  /\ cout' = HeaderRead(headerFromBytes(cin.data))
  /\ UNCHANGED <<cin, storeVars, thr>>

HeaderDecoded(d) ==
  [NoOut EXCEPT !.op = "decodeHeader", !.panic = d.panic, !.h = d.h]

\* a call of decodeHeader on the buffer
DecodeHeaderCall ==
  /\ HeaderWritten
  /\ cout' = HeaderDecoded(decodeHeader(cin.data))
  /\ UNCHANGED <<cin, storeVars, thr>>

NextHeader ==
  \/ EncodeHeader
  \/ \E m \in 0..MaxCut : CutShort(m)
  \/ \E x \in ExtraBytes : Extend(x)
  \/ FromBytes
  \/ DecodeHeaderCall

SpecHeader == InitHeader /\ [][NextHeader]_vars

\* ------------------------------------------------------------------------
\* encodeKV on strings of 2^32 bytes and more, which are given by their byte
\* length alone.  A length is [hi, lo], standing for hi * 2^16 + lo, hi not
\* limited to 16 bits: len() is a 64-bit int.

IntOf(n) == [hi |-> n \div Half, lo |-> n % Half]

\* int addition
IntAdd(a, b) ==
  [hi |-> a.hi + b.hi + ((a.lo + b.lo) \div Half), lo |-> (a.lo + b.lo) % Half]

IntLe(a, b) == a.hi < b.hi \/ (a.hi = b.hi /\ a.lo <= b.lo)

\* uint32(n) of an int n: the low 32 bits
Uint32Of(n) == [hi |-> n.hi % Half, lo |-> n.lo]

\* math.MaxUint32
MaxUint32 == [hi |-> Half - 1, lo |-> Half - 1]

\* `for i, val := range s { utf8.EncodeRune(buf[base+i:], val) }` on s of
\* sLen bytes of valid UTF-8 and buf of bufLen bytes: the loop writes the
\* bytes of s at base, base+1, ... in turn, and EncodeRune (or the slice
\* expression) panics at the first rune that does not fit; an empty s is
\* never written
RunesFit(base, sLen, bufLen) ==
  sLen = IntOf(0) \/ IntLe(IntAdd(base, sLen), bufLen)

\* encodeKV after the header h is built, for a key and a value of keyLen and
\* valueLen bytes: [panic, h, size], h the header written into buf by
\* h.WriteBytes(buf), size the length of buf
EncodeSizedWith(h, keyLen, valueLen, bufLen) ==
  [panic |-> ~(/\ RunesFit(IntOf(12), keyLen, bufLen)
               /\ RunesFit(IntAdd(IntOf(12), h.keySize), valueLen, bufLen)),
   h     |-> h,
   size  |-> bufLen]

EncodeSizedHeader(h, keyLen, valueLen) ==
  EncodeSizedWith(h, keyLen, valueLen,
                  IntAdd(IntAdd(IntOf(12), h.keySize), h.valueSize))

encodeKVSized(timestamp, keyLen, valueLen) ==
  EncodeSizedHeader([timestamp |-> timestamp,
                     keySize   |-> Uint32Of(keyLen),
                     valueSize |-> Uint32Of(valueLen)],
                    keyLen, valueLen)

\* 0, 1, 5, 2^32 - 2, 2^32 - 1, 2^32, 2^32 + 1, 2^32 + 5, 2^33, 2^33 + 7
Lengths ==
  {IntOf(0), IntOf(1), IntOf(5), [hi |-> Half - 1, lo |-> Half - 2], MaxUint32,
   [hi |-> Half, lo |-> 0], [hi |-> Half, lo |-> 1], [hi |-> Half, lo |-> 5],
   [hi |-> 2 * Half, lo |-> 0], [hi |-> 2 * Half, lo |-> 7]}

InitSized ==
  /\ StoreIdle
  /\ \E k \in Lengths, v \in Lengths :
       cin = [NoCodec EXCEPT !.keyLen = k, !.valueLen = v]
  /\ cout = NoOut

\* a call of encodeKV on a key and a value of the given lengths
EncodeSized ==
  /\ cout.op = ""
  /\ LET enc == encodeKVSized(cin.timestamp, cin.keyLen, cin.valueLen)
     IN  cout' = [NoOut EXCEPT !.op = "encodeKV", !.panic = enc.panic,
                               !.h = enc.h, !.size = enc.size]
  /\ UNCHANGED <<cin, storeVars, thr>>

NextSized == EncodeSized

SpecSized == InitSized /\ [][NextSized]_vars

\* ------------------------------------------------------------------------
\* the codec claims

\* the buffer holds the header of (timestamp, key, value), the key's bytes at
\* offset 12 and the value's bytes at offset 12 + len(key)
Layout(data, timestamp, key, value) ==
  /\ Len(data) = 12 + Len(key) + Len(value)
  /\ Slice(data, 0, 4) = PutUint32(timestamp)
  /\ Slice(data, 4, 8) = PutUint32(U32(Len(key)))
  /\ Slice(data, 8, 12) = PutUint32(U32(Len(value)))
  /\ Slice(data, 12, 12 + Len(key)) = key
  /\ Slice(data, 12 + Len(key), Len(data)) = value

\* C9: for a key and a value that are valid UTF-8, encodeKV returns exactly
\* 12 + len(key) + len(value) bytes with the key at offset 12 and the value at
\* offset 12 + len(key), and decodeKV of that buffer gives back the timestamp,
\* the key and the value.
CodecRoundTrip ==
  (ValidUTF8(cin.key) /\ ValidUTF8(cin.value)) =>
    /\ cout.op = "encodeKV" =>
         /\ ~cout.panic
         /\ cout.n = 12 + Len(cin.key) + Len(cin.value)
         /\ Layout(cin.data, cin.timestamp, cin.key, cin.value)
    /\ (cout.op = "decodeKV" /\ ~cin.mangled) =>
         /\ ~cout.panic
         /\ cout.timestamp = cin.timestamp
         /\ cout.key = cin.key
         /\ cout.value = cin.value

\* a multi-byte key and value with the largest timestamp went through encodeKV
\* and decodeKV
CodecRoundTripWitness ==
  /\ cout.op = "decodeKV"
  /\ ~cin.mangled
  /\ cin.timestamp = [hi |-> 65535, lo |-> 65535]
  /\ cin.key = <<97, 226, 130, 172>>
  /\ cin.value = <<240, 159, 152, 128>>
  /\ cout.key = cin.key
  /\ cout.value = cin.value

\* the buffer is shorter than a header, or its length differs from
\* 12 + keySize + valueSize as its header states them
WrongSized(data) ==
  \/ Len(data) < 12
  \/ LET h == headerFromBytes(Slice(data, 0, 12)).h
     IN ~(/\ h.keySize.hi = 0
          /\ h.valueSize.hi = 0
          /\ Len(data) = 12 + h.keySize.lo + h.valueSize.lo)

\* C10: decodeKV fails on every buffer of fewer than 12 bytes and on every
\* buffer whose length is not 12 + keySize + valueSize; it returns no
\* (timestamp, key, value) for such a buffer.
DecodeRejectsWrongSize ==
  (cout.op = "decodeKV" /\ WrongSized(cin.data)) => cout.panic

\* ------------------------------------------------------------------------
\* the store claims

\* a Set of key k is recorded in h at offset from or later
HasKey(h, k, from) == \E i \in 1..Len(h) : h[i].key = k /\ h[i].pos >= from

\* the last Set of key k recorded in h
LastOf(h, k) ==
  h[CHOOSE i \in 1..Len(h) :
      /\ h[i].key = k
      /\ \A j \in 1..Len(h) : h[j].key = k => j <= i]

\* the encoded length of a recorded Set
RecLen(r) == 12 + Len(r.key) + Len(r.value)

\* the instance the last call was made on is open and none of its writes failed
\* part-way
OnSoundStore ==
  /\ ret.store \in StoreIds
  /\ stores[ret.store].state = "open"
  /\ ~stale[ret.store]

\* C1: on an open store, Get(k) of a key that was Set through that store
\* returns the value of the most recent Set of k.
LastWriteWins ==
  (/\ ret.op = "Get"
   /\ OnSoundStore
   /\ HasKey(hist[ret.path], ret.key, stores[ret.store].base))
  => (~ret.panic /\ ret.out = LastOf(hist[ret.path], ret.key).value)

\* the first DiskStore a process creates: it starts with a keyDir nothing was
\* put into
FirstOfProcess(s) == s = 1

\* C2: a store opened by a new process on a file returns, for every key Set
\* before, the value of the last Set, and not-found for a key never written.
DurableAcrossRestart ==
  (/\ ret.op = "Get"
   /\ OnSoundStore
   /\ FirstOfProcess(ret.store)
   /\ torn[ret.path] = 0)
  => /\ ~ret.panic
     /\ ret.out = IF HasKey(hist[ret.path], ret.key, 0)
                  THEN LastOf(hist[ret.path], ret.key).value
                  ELSE <<>>

\* the entry e points into record r: at its first byte or at its value
Locates(e, r) ==
  e.found /\ e.valuePos \in {r.pos, r.pos + 12 + Len(r.key)}

\* C3: when NewDiskStore returns a store on a file of well-formed records, the
\* index holds exactly the keys that occur in the file, each entry locating the
\* last record of its key, and the cursor is the file's length.
ReplayOnOpen ==
  (/\ ret.op = "NewDiskStore"
   /\ ~ret.panic
   /\ torn[ret.path] = 0)
  => /\ \A k \in Keys :
          IF HasKey(hist[ret.path], k, 0)
          THEN Locates(keyDir[k], LastOf(hist[ret.path], k))
          ELSE ~keyDir[k].found
     /\ stores[ret.store].curPos = Len(files[ret.path].data)

\* C4: a Set on one store leaves what Get returns on a store opened on another
\* file as it was, for every key.
StoreIsolation ==
  [][\A s \in StoreIds, k \in Keys :
       (/\ ret'.op = "Set"
        /\ ~ret'.panic
        /\ ret'.store # s
        /\ stores[s].state = "open"
        /\ stores[s].path # ret'.path)
       => GetResult(stores[s], k)' = GetResult(stores[s], k)]_vars

\* C5: Get of a key that was never written to the store's file returns the
\* empty result and does not fail.
NotFoundIsNormal ==
  (/\ ret.op = "Get"
   /\ OnSoundStore
   /\ torn[ret.path] = 0
   /\ ~HasKey(hist[ret.path], ret.key, 0))
  => (~ret.panic /\ ret.out = <<>>)

\* C6: every Get and every Set on a closed store fails.
ClosedIsGuarded ==
  (/\ ret.op \in {"Get", "Set"}
   /\ stores[ret.store].state = "closed")
  => ret.panic

\* what a replay of data from offset off on would meet: "clean" at the end of
\* the last record, "partial header" with 1 to 11 bytes left, "truncated" when
\* a header declares more bytes than remain
RECURSIVE Scan(_, _)
ScanRecord(data, off, h) ==
  IF ~(h.keySize.hi = 0 /\ h.valueSize.hi = 0) THEN "truncated"
  ELSE IF off + 12 + h.keySize.lo + h.valueSize.lo > Len(data) THEN "truncated"
  ELSE Scan(data, off + 12 + h.keySize.lo + h.valueSize.lo)

Scan(data, off) ==
  IF off = Len(data) THEN "clean"
  ELSE IF Len(data) - off < 12 THEN "partial header"
  ELSE ScanRecord(data, off, headerFromBytes(Slice(data, off, off + 12)).h)

\* C7: NewDiskStore fails on a file that ends with a partial header or with a
\* record whose header declares more bytes than remain.
CorruptOpenFails ==
  (/\ ret.op = "NewDiskStore"
   /\ Scan(files[ret.path].data, 0) # "clean")
  => ret.panic

\* a is a prefix of b
IsPrefix(a, b) == Len(a) <= Len(b) /\ SubSeq(b, 1, Len(a)) = a

\* the records of h lie in data one after the other from offset 0 to the end,
\* each with the layout of encodeKV
RECURSIVE IsLog(_, _, _)
IsLog(data, h, i) ==
  IF i > Len(h) THEN TRUE
  ELSE /\ h[i].pos = (IF i = 1 THEN 0 ELSE h[i - 1].pos + RecLen(h[i - 1]))
       /\ h[i].pos + RecLen(h[i]) <= Len(data)
       /\ Layout(Slice(data, h[i].pos, h[i].pos + RecLen(h[i])),
                 h[i].timestamp, h[i].key, h[i].value)
       /\ (i = Len(h) => Len(data) = h[i].pos + RecLen(h[i]))
       /\ IsLog(data, h, i + 1)

\* C8: a file that started empty and took only completed Sets is the
\* concatenation, in call order, of the encoded records, each 12 + keySize +
\* valueSize bytes long; and no step changes a byte that is already in a file.
AppendOnlyLog ==
  /\ [](\A p \in Paths :
          torn[p] = 0 =>
            /\ IsLog(files[p].data, hist[p], 1)
            /\ (hist[p] = <<>> => files[p].data = <<>>))
  /\ [][\A p \in Paths : IsPrefix(files[p].data, files'[p].data)]_vars

\* two completed Sets, the second of a longer record for the same key, lie in
\* one file
AppendOnlyLogWitness ==
  /\ ret.op = "Set"
  /\ ~ret.panic
  /\ Len(hist["a.db"]) = 2
  /\ torn["a.db"] = 0
  /\ hist["a.db"][1].key = hist["a.db"][2].key
  /\ Len(hist["a.db"][1].value) < Len(hist["a.db"][2].value)

\* C20: the buffer the header writer produces has 12 bytes, the timestamp
\* little-endian in bytes 0-3, keySize in bytes 4-7 and valueSize in bytes
\* 8-11; decoding it returns the three fields, and decoding a buffer of any
\* other length fails
HeaderRoundTrip ==
  /\ cout.op = "encodeHeader"
       => /\ Len(cin.data) = 12
          /\ Slice(cin.data, 0, 4) = PutUint32(cin.h.timestamp)
          /\ Slice(cin.data, 4, 8) = PutUint32(cin.h.keySize)
          /\ Slice(cin.data, 8, 12) = PutUint32(cin.h.valueSize)
  /\ cout.op \in {"headerFromBytes", "decodeHeader"}
       => IF Len(cin.data) = 12
          THEN ~cout.err /\ ~cout.panic /\ ~cin.mangled /\ cout.h = cin.h
          ELSE cout.err \/ cout.panic

\* a header whose three fields differ, one of them above 2^31, has been read
\* back from its buffer
HeaderRoundTripWitness ==
  /\ cout.op \in {"headerFromBytes", "decodeHeader"}
  /\ Len(cin.data) = 12
  /\ cout.h = cin.h
  /\ cin.h.timestamp = [hi |-> 258, lo |-> 772]
  /\ cin.h.keySize = [hi |-> Half - 1, lo |-> Half - 1]
  /\ cin.h.valueSize = U32(1)

\* ------------------------------------------------------------------------
\* the claims on Set's and NewDiskStore's effects

\* C11: a Set whose write stops short of the encoded record (d.f.Write
\* returns an error, or written # dataLen) fails in the caller's eyes, and
\* leaves keyDir and every DiskStore's curPos as they were before the call
FailedAppendReported ==
  [][(ret'.op = "Set" /\ ret'.written < ret'.dataLen)
       => (ret'.panic /\ keyDir' = keyDir /\ stores' = stores)]_vars

\* a Set of an indexed key has failed after part of its record reached the file
FailedAppendReportedWitness ==
  /\ ret.op = "Set"
  /\ ret.panic
  /\ 0 < ret.written
  /\ ret.written < ret.dataLen
  /\ keyDir[ret.key].found
  /\ stores[ret.store].curPos < Len(files[ret.path].data)

\* C12: NewDiskStore on a path whose file exists leaves the file's bytes and
\* length unchanged; on an absent path it creates an empty file and returns a
\* DiskStore whose curPos is 0
OpenNeverTruncates ==
  [][(ret'.op = "NewDiskStore" /\ ~ret'.panic)
       => /\ \A p \in Paths : files'[p].data = files[p].data
          /\ files'[ret'.path].exists
          /\ ~files[ret'.path].exists
               => /\ files'[ret'.path].data = <<>>
                  /\ stores'[ret'.store].curPos = 0]_vars

\* NewDiskStore has returned a DiskStore on a file that held records before
OpenNeverTruncatesWitness ==
  /\ ret.op = "NewDiskStore"
  /\ ~ret.panic
  /\ stores[ret.store].base > 0
  /\ Len(files[ret.path].data) = stores[ret.store].base

\* C13: encodeKV on a key or a value longer than 2^32 - 1 bytes fails, and
\* does not write a header whose keySize or valueSize is the length reduced
\* modulo 2^32
SizeOverflowRejected ==
  (cout.op = "encodeKV" /\ ~(IntLe(cin.keyLen, MaxUint32) /\ IntLe(cin.valueLen, MaxUint32)))
    => /\ cout.panic
       /\ ~(~IntLe(cin.keyLen, MaxUint32) /\ cout.h.keySize = Uint32Of(cin.keyLen))
       /\ ~(~IntLe(cin.valueLen, MaxUint32) /\ cout.h.valueSize = Uint32Of(cin.valueLen))

SetDone(s, k) == ret'.op = "Set" /\ ~ret'.panic /\ ret'.store = s /\ ret'.key = k

\* the record the Set of this step appended
Appended == hist'[ret'.path][Len(hist'[ret'.path])]

ReadsRecord(rd, r) ==
  /\ ~rd.err
  /\ Layout(rd.buf, r.timestamp, r.key, r.value)
  /\ GetRead(rd) = [panic |-> FALSE, out |-> r.value]

\* the entry e locates the record r, written when the cursor was c
EntryOfRecord(e, r, c) ==
  /\ e.found
  /\ e.timestamp = r.timestamp
  /\ e.valuePos = c
  /\ e.valueSize = 12 + Len(r.key) + Len(r.value)

GetReadOnlySetOneEntry ==
  [][/\ ret'.op = "Get" => (files' = files /\ stores' = stores /\ keyDir' = keyDir)
     /\ (ret'.op = "Set" /\ ~ret'.panic)
          => /\ keyDir'[ret'.key].found
             /\ keyDir'[ret'.key].valuePos = Appended.pos
             /\ \A k \in Keys : k # ret'.key => keyDir'[k] = keyDir[k]]_vars

\* a Set has succeeded while the other key had its entry
GetReadOnlySetOneEntryWitness ==
  /\ ret.op = "Set"
  /\ ~ret.panic
  /\ \E k \in Keys : k # ret.key /\ keyDir[k].found /\ keyDir[k].valuePos # keyDir[ret.key].valuePos

\* the process has created one DiskStore and no other
OnlyStore(s) ==
  /\ stores[s].state # "unopened"
  /\ \A t \in StoreIds : t # s => stores[t].state = "unopened"

\* the bytes [valuePos, valuePos + valueSize) of data are the record r
HoldsRecord(data, e, r) ==
  /\ e.valuePos = r.pos
  /\ e.valueSize = RecLen(r)
  /\ e.timestamp = r.timestamp
  /\ e.valuePos + e.valueSize <= Len(data)
  /\ Slice(data, e.valuePos, e.valuePos + e.valueSize)
       = encodeKV(r.timestamp, r.key, r.value).data

Returned(t, op) == thr[t].pc = "done" /\ thr[t].op = op

\* C16: when two threads have called Set on the same DiskStore, in any
\* interleaving of their steps, and both have returned, the entry of each key
\* locates the record its own Set appended, curPos is the file length and
\* Get of each key returns the value its Set wrote
ConcurrentSetsConsistent ==
  \A t \in Threads, u \in Threads :
    (t # u /\ Returned(t, "Set") /\ Returned(u, "Set") /\ thr[t].key # thr[u].key)
      => /\ keyDir[thr[t].key].found
         /\ keyDir[thr[t].key].valuePos = thr[t].at
         /\ keyDir[thr[t].key].valueSize = thr[t].n
         /\ stores[Shared].curPos = Len(files[stores[Shared].path].data)
         /\ GetResult(stores[Shared], thr[t].key)
              = [panic |-> FALSE, out |-> thr[t].value]

\* C17: a Get(k) of a thread that runs while the other thread is calling
\* Set(k, v) returns the value of a completed or of that Set of k, or
\* not-found: it does not fail and returns no other bytes
GetSeesAllOrNothing ==
  \A t \in Threads :
    (Returned(t, "Get") /\ thr[t].sets = 0)
      => /\ ~thr[t].panic
         /\ \/ thr[t].out = <<>>
            \/ \E p \in Paths : \E i \in 1..Len(hist[p]) :
                 /\ hist[p][i].key = thr[t].key
                 /\ hist[p][i].value = thr[t].out

====
